---------------------------- MODULE Spec2Model ----------------------------
(***************************************************************************)
(* Model of src/check_questions.py: a sequential script that connects to   *)
(* PostgreSQL, prints the schema of interview_messages, lists the recent   *)
(* question rows (falling back to the latest ones), prints two counts and  *)
(* closes the connection.                                                  *)
(*                                                                         *)
(* Conventions.  Time is counted in whole hours; Now is the instant of the *)
(* run (datetime.utcnow() and the server's NOW() are taken to agree, and   *)
(* the timestamp column to be UTC).  A text is a sequence of character     *)
(* codes.  The text of a metadata column is a sequence of JSON tokens.     *)
(* Every print of the program appends one line record to out.  The content *)
(* column is taken to be NOT NULL, as lines 75 and 126 take it to be.      *)
(***************************************************************************)
EXTENDS Integers, Sequences, FiniteSets, TLC

VARIABLES
    DB_PORT,           \* os.getenv('DB_PORT'): a text, or Unset
    present,           \* whether the table interview_messages exists
    table,             \* the rows of interview_messages
    hours_back,        \* the window handed to check_recent_questions
    pc,                \* the position of main()
    conn,              \* "none", "open" or "closed"
    connects,          \* connections obtained from psycopg2.connect
    closes,            \* calls of conn.close()
    cursors,           \* cursors obtained from conn.cursor()
    queryLog,          \* the queries handed to cursor.execute, in order
    out,               \* the lines printed so far
    faults,            \* the exceptions raised so far
    recent_questions,  \* what check_recent_questions returned
    cursor,            \* the cursor main() made for the counts (0: none)
    total_questions,   \* the first count
    raised             \* the exception main() is leaving with, or "none"

vars == <<DB_PORT, present, table, hours_back, pc, conn, connects, closes,
          cursors, queryLog, out, faults, recent_questions, cursor,
          total_questions, raised>>

---------------------------------------------------------------------------
(* Bounds of the model *)

MaxRows == 3

---------------------------------------------------------------------------
(* Texts *)

Min(a, b) == IF a <= b THEN a ELSE b

\* A text of n characters; the characters vary with the position.
Body(n, c) == [i \in 1..n |-> c + (i % 7)]

Ellipsis == <<46, 46, 46>>

TruncLen == 100

\* A cut that marks a body of exactly TruncLen characters as cut.
TruncateFromLimit(text) ==
    SubSeq(text, 1, Min(TruncLen, Len(text)))
        \o (IF Len(text) >= TruncLen THEN Ellipsis ELSE <<>>)

\* f"{question_text[:100]}{'...' if len(question_text) > 100 else ''}"
Truncate(text) ==
    SubSeq(text, 1, Min(TruncLen, Len(text)))
        \o (IF Len(text) > TruncLen THEN Ellipsis ELSE <<>>)

---------------------------------------------------------------------------
(* Configuration *)

Unset == <<"unset">>

Digits == {"0", "1", "2", "3", "4", "5", "6", "7", "8", "9"}

DefaultPort == <<"5", "4", "3", "2">>

\* os.getenv('DB_PORT', '5432')
GetenvPort(v) == IF v = Unset THEN DefaultPort ELSE v

\* int(s) succeeds on a non-empty run of digits (signs, blanks and
\* underscores are left out of the values drawn).
IsInt(s) == Len(s) > 0 /\ \A i \in 1..Len(s) : s[i] \in Digits

DigitVal(d) ==
    CASE d = "0" -> 0 [] d = "1" -> 1 [] d = "2" -> 2 [] d = "3" -> 3
      [] d = "4" -> 4 [] d = "5" -> 5 [] d = "6" -> 6 [] d = "7" -> 7
      [] d = "8" -> 8 [] d = "9" -> 9

RECURSIVE IntOf(_)
IntOf(s) ==
    IF Len(s) = 0 THEN 0
    ELSE 10 * IntOf(SubSeq(s, 1, Len(s) - 1)) + DigitVal(s[Len(s)])

PortValues ==
    {Unset, <<"5", "4", "3", "3">>, <<"a", "b", "c">>, <<>>, <<"8", "0", "x">>}

---------------------------------------------------------------------------
(* Metadata: the value psycopg2 hands over, and json.loads *)

\* Tokens that stand for a quoted JSON string.
Quoted == {"source", "category", "difficulty", "llm", "algorithms", "hard"}

\* Tokens that stand for a JSON literal that is not a string.
Literals == {"0", "7", "null", "true"}

NoMap == [k \in {} |-> "none"]

JMap(m)    == [kind |-> "map", map |-> m, n |-> 0]
JList(n)   == [kind |-> "list", map |-> NoMap, n |-> n]
JScalar(t) == [kind |-> "scalar", map |-> NoMap, n |-> IF t \in {"0", "null"} THEN 0 ELSE 1]

Parsed(v) == [ok |-> TRUE, val |-> v]
ParseError == [ok |-> FALSE, val |-> JList(0)]

\* The members of a JSON object: key : value , key : value ...  A key that
\* comes twice keeps its last value.
RECURSIVE Members(_, _)
Members(t, acc) ==
    IF Len(t) < 3 THEN ParseError
    ELSE IF ~(t[1] \in Quoted /\ t[2] = ":" /\ t[3] \in Quoted \cup Literals)
    THEN ParseError
    ELSE LET m == [k \in DOMAIN acc \cup {t[1]} |->
                      IF k = t[1] THEN t[3] ELSE acc[k]]
         IN  IF Len(t) = 3 THEN Parsed(JMap(m))
             ELSE IF t[4] = "," THEN Members(SubSeq(t, 5, Len(t)), m)
             ELSE ParseError

\* The elements of a JSON array of scalars; n counts them.
RECURSIVE Elements(_, _)
Elements(t, n) ==
    IF Len(t) = 0 THEN ParseError
    ELSE IF ~(t[1] \in Quoted \cup Literals) THEN ParseError
    ELSE IF Len(t) = 1 THEN Parsed(JList(n + 1))
    ELSE IF t[2] = "," THEN Elements(SubSeq(t, 3, Len(t)), n + 1)
    ELSE ParseError

\* json.loads(text)
JsonLoads(t) ==
    IF Len(t) = 0 THEN ParseError
    ELSE IF Len(t) = 1
    THEN IF t[1] \in Quoted \cup Literals THEN Parsed(JScalar(t[1])) ELSE ParseError
    ELSE IF t[1] = "{" /\ t[Len(t)] = "}"
    THEN IF Len(t) = 2 THEN Parsed(JMap(NoMap))
         ELSE Members(SubSeq(t, 2, Len(t) - 1), NoMap)
    ELSE IF t[1] = "[" /\ t[Len(t)] = "]"
    THEN IF Len(t) = 2 THEN Parsed(JList(0))
         ELSE Elements(SubSeq(t, 2, Len(t) - 1), 0)
    ELSE ParseError

\* The metadata of a row as the driver returns it: None, a str (a text
\* column) or a decoded JSON value (a json or jsonb column).
MdNone      == [ty |-> "none", text |-> <<>>, obj |-> JList(0)]
MdStr(t)    == [ty |-> "str", text |-> t, obj |-> JList(0)]
MdJson(v)   == [ty |-> "json", text |-> <<>>, obj |-> v]

\* bool(metadata), the test of "if metadata:"
Truthy(md) ==
    CASE md.ty = "none" -> FALSE
      [] md.ty = "str"  -> Len(md.text) > 0
      [] md.ty = "json" ->
            CASE md.obj.kind = "map"    -> DOMAIN md.obj.map # {}
              [] md.obj.kind = "list"   -> md.obj.n > 0
              [] md.obj.kind = "scalar" -> md.obj.n > 0

\* meta = json.loads(metadata) if isinstance(metadata, str) else metadata
LoadMeta(md) == IF md.ty = "str" THEN JsonLoads(md.text) ELSE Parsed(md.obj)

\* meta.get(key, 'unknown')
Get(m, key) == IF key \in DOMAIN m THEN m[key] ELSE "unknown"

---------------------------------------------------------------------------
(* The table interview_messages *)

Now == 100

Row(id, ty, ts, content, md) ==
    [id |-> id, session_id |-> 1 + (id % 2), message_type |-> ty,
     content |-> content, metadata |-> md, timestamp |-> ts]

\* The rows a table is drawn from: questions 1, 5, 24, 25 and 30 hours old,
\* an answer and a row of another type; bodies of 3, 100, 101 and 102
\* characters; metadata of every kind the display tells apart.
Catalogue ==
    { Row(1, "question", Now - 1, Body(3, 97), MdNone),
      Row(2, "question", Now - 5, Body(101, 65),
          MdStr(<<"{", "source", ":", "llm", ",", "category", ":", "algorithms", "}">>)),
      Row(3, "question", Now - 30, Body(100, 97), MdStr(<<"not json">>)),
      Row(4, "question", Now - 24, Body(102, 48), MdJson(JMap(NoMap))),
      Row(5, "question", Now - 5, Body(100, 65), MdStr(<<>>)),
      Row(6, "question", Now - 25, Body(3, 65), MdStr(<<"[", "7", "]">>)),
      Row(7, "answer", Now - 2, Body(101, 97), MdNone),
      Row(8, "system", Now - 3, Body(3, 48), MdStr(<<"{", "}">>)),
      Row(9, "question", Now - 1, Body(101, 48),
          MdJson(JMap([k \in {"source", "category", "difficulty"} |->
                         IF k = "source" THEN "llm"
                         ELSE IF k = "category" THEN "algorithms" ELSE "hard"]))),
      Row(10, "question", Now - 30, Body(101, 97), MdStr(<<"{", "}">>)),
      Row(11, "question", Now - 2, Body(3, 48), MdJson(JList(2))) }

Tables == {t \in SUBSET Catalogue : Cardinality(t) <= MaxRows}

\* information_schema.columns of the table, by ordinal position:
\* (column_name, data_type, is_nullable, column_default); "" is NULL.
Columns ==
    << <<"id", "uuid", "NO", "gen_random_uuid()">>,
       <<"session_id", "uuid", "NO", "">>,
       <<"message_type", "text", "NO", "">>,
       <<"content", "text", "NO", "">>,
       <<"metadata", "jsonb", "YES", "">>,
       <<"timestamp", "timestamp", "NO", "now()">> >>

\* time_threshold = datetime.utcnow() - timedelta(hours=hours_back)
TimeThreshold(W) == Now - W

\* The filter with a strict comparison.
RecentWhereStrict(r, W) ==
    r.message_type = "question" /\ r.timestamp > Now - W

\* WHERE message_type = 'question' AND timestamp >= %s
RecentWhere(r, W) ==
    r.message_type = "question" /\ r.timestamp >= TimeThreshold(W)

\* WHERE message_type = 'question'
AllWhere(r) == r.message_type = "question"

\* ORDER BY timestamp DESC: the orders the server may return the rows S in
\* (rows of equal timestamp come in any order).
OrderByTimestampDesc(S) ==
    LET n == Cardinality(S)
    IN  {s \in [1..n -> S] :
            /\ \A i, j \in 1..n : i # j => s[i] # s[j]
            /\ \A i \in 1..n, j \in 1..n : i < j => s[i].timestamp >= s[j].timestamp}

\* LIMIT %s
Limit(s, n) == SubSeq(s, 1, Min(n, Len(s)))

\* EXTRACT(EPOCH FROM (NOW() - timestamp))/3600
HoursAgo(r) == Now - r.timestamp

\* SELECT id, session_id, content as question_text, metadata, timestamp,
\*        ... as hours_ago
SelectRecent(r) ==
    [id |-> r.id, session_id |-> r.session_id, question_text |-> r.content,
     metadata |-> r.metadata, timestamp |-> r.timestamp, hours_ago |-> HoursAgo(r)]

\* SELECT id, session_id, content as question_text, metadata, timestamp
SelectAll(r) ==
    [id |-> r.id, session_id |-> r.session_id, question_text |-> r.content,
     metadata |-> r.metadata, timestamp |-> r.timestamp]

\* The answers the server may give to the query of check_recent_questions.
RecentAnswers(W) ==
    {[i \in 1..Len(s) |-> SelectRecent(s[i])] :
        s \in OrderByTimestampDesc({r \in table : RecentWhere(r, W)})}

\* The answers the server may give to the query of check_all_questions.
AllAnswers(limit) ==
    {[i \in 1..Min(limit, Len(s)) |-> SelectAll(Limit(s, limit)[i])] :
        s \in OrderByTimestampDesc({r \in table : AllWhere(r)})}

\* SELECT COUNT(*) FROM interview_messages WHERE message_type = ty
CountWhere(ty) == Cardinality({r \in table : r.message_type = ty})

---------------------------------------------------------------------------
(* Printed lines and raised exceptions *)

Line(fn, mark, kind, val) == [fn |-> fn, mark |-> mark, kind |-> kind, val |-> val]

Fault(what, at) == [what |-> what, at |-> at]

---------------------------------------------------------------------------
(* The display of a question row (lines 71-86 and 122-136) *)

\* The text shown for a body: cut in the recency view, whole in the other.
ShownText(fn, text) == IF fn = "recent" THEN Truncate(text) ELSE text

\* Whether the try block of the metadata raises (json.loads, or .get on a
\* value that is no dict).
MetaRaises(md) ==
    Truthy(md) /\ (~LoadMeta(md).ok \/ LoadMeta(md).val.kind # "map")

MetaLines(fn, md) ==
    IF ~Truthy(md) THEN <<>>
    ELSE IF MetaRaises(md) THEN <<Line(fn, "none", "Metadata", md)>>
    ELSE LET m == LoadMeta(md).val.map
         IN  <<Line(fn, "none", "Source", Get(m, "source")),
               Line(fn, "none", "Category", Get(m, "category")),
               Line(fn, "none", "Difficulty", Get(m, "difficulty"))>>

RowLines(fn, r, i) ==
    <<Line(fn, "none", "Question #", i),
      Line(fn, "none", "ID", r.id),
      Line(fn, "none", "Session", r.session_id),
      Line(fn, "none", "Text", ShownText(fn, r.question_text)),
      Line(fn, "none", "Timestamp", r.timestamp)>>
        \o (IF fn = "recent"
            THEN <<Line(fn, "none", "Time ago", r.hours_ago)>> ELSE <<>>)

\* The for loop over the rows from the i-th on; acc holds the lines printed
\* and the exceptions raised so far.
RECURSIVE Render(_, _, _, _)
Render(fn, rows, i, acc) ==
    IF i > Len(rows) THEN acc
    ELSE LET r    == rows[i]
             head == acc.out \o RowLines(fn, r, i)
         IN  Render(fn, rows, i + 1,
                    [out    |-> head \o MetaLines(fn, r.metadata),
                     faults |-> IF MetaRaises(r.metadata)
                                THEN Append(acc.faults, Fault("metadata", Len(head)))
                                ELSE acc.faults])

---------------------------------------------------------------------------
(* The three query helpers.  o says how the database calls end:           *)
(* "cursor_error" (conn.cursor() raises), "execute_error" (execute or     *)
(* fetchall raises) or "ok"; a query on a table that does not exist        *)
(* raises.  base holds the lines printed before the call.                  *)

Outcomes == {"ok", "cursor_error", "execute_error"}

Query(q, cur) == [q |-> q, cur |-> cur]

\* An except clause that swallows the exception without a word.
CaughtSilently(base, fn, what, o) ==
    /\ cursors' = IF o = "cursor_error" THEN cursors ELSE cursors + 1
    /\ queryLog' = IF o = "cursor_error" THEN queryLog
                   ELSE Append(queryLog, Query(fn, cursors + 1))
    /\ faults' = Append(faults, Fault(what, Len(base)))
    /\ out' = base

\* The except clause of a helper: the cause is reported, nothing else.
Caught(base, fn, what, o) ==
    /\ cursors' = IF o = "cursor_error" THEN cursors ELSE cursors + 1
    /\ queryLog' = IF o = "cursor_error" THEN queryLog
                   ELSE Append(queryLog, Query(fn, cursors + 1))
    /\ faults' = Append(faults, Fault(what, Len(base)))
    /\ out' = Append(base, Line(fn, "fail", "Error", what))

\* A helper that sends its query a second time.
ExecutedTwice(fn) ==
    /\ cursors' = cursors + 1
    /\ queryLog' = queryLog \o <<Query(fn, cursors + 1), Query(fn, cursors + 1)>>

\* A helper whose cursor and query succeeded.
Executed(fn) ==
    /\ cursors' = cursors + 1
    /\ queryLog' = Append(queryLog, Query(fn, cursors + 1))

check_table_structure(base, o) ==
    IF o # "ok" THEN Caught(base, "schema", "schema", o)
    ELSE /\ Executed("schema")
         /\ faults' = faults
         /\ out' = IF ~present
                   THEN Append(base, Line("schema", "fail", "table not found", 0))
                   ELSE base \o <<Line("schema", "none", "structure", 0),
                                 Line("schema", "none", "rule", 60)>>
                            \o [i \in 1..Len(Columns) |->
                                  Line("schema", "none", "column",
                                       <<Columns[i][1], Columns[i][2],
                                         IF Columns[i][3] = "YES" THEN "NULL" ELSE "NOT NULL",
                                         Columns[i][4]>>)]

\* Whether the try block of a question helper ends in its except clause.
Fails(o) == o # "ok" \/ ~present

\* An except clause that hands back the rows all the same.
ReturnedDespiteFailure(o, questions) == questions

\* What check_recent_questions and check_all_questions return: the rows
\* fetched, or [] from the except clause.
Returned(o, questions) == IF Fails(o) THEN <<>> ELSE questions

check_recent_questions(base, W, o, questions) ==
    IF Fails(o)
    THEN Caught(base, "recent", "recent", IF o = "ok" THEN "execute_error" ELSE o)
    ELSE /\ Executed("recent")
         /\ IF questions = <<>>
            THEN /\ out' = Append(base, Line("recent", "fail", "No questions found", W))
                 /\ faults' = faults
            ELSE LET acc == Render("recent", questions, 1,
                                   [out |-> base \o <<Line("recent", "ok", "Found", <<Len(questions), W>>),
                                                     Line("recent", "none", "rule", 80)>>,
                                    faults |-> faults])
                 IN  /\ out' = acc.out
                     /\ faults' = acc.faults

check_all_questions(base, limit, o, questions) ==
    IF Fails(o)
    THEN Caught(base, "all", "all", IF o = "ok" THEN "execute_error" ELSE o)
    ELSE /\ Executed("all")
         /\ IF questions = <<>>
            THEN /\ out' = Append(base, Line("all", "fail", "No questions found", 0))
                 /\ faults' = faults
            ELSE LET acc == Render("all", questions, 1,
                                   [out |-> base \o <<Line("all", "ok", "Found", <<Len(questions), 0>>),
                                                     Line("all", "none", "rule", 80)>>,
                                    faults |-> faults])
                 IN  /\ out' = acc.out
                     /\ faults' = acc.faults

---------------------------------------------------------------------------
(* main() *)

MainWindow == 24

MainLimit == 10

Init ==
    /\ DB_PORT \in PortValues
    /\ present \in BOOLEAN
    /\ table \in (IF present THEN Tables ELSE {{}})
    /\ hours_back = MainWindow
    /\ pc = "start"
    /\ conn = "none"
    /\ connects = 0
    /\ closes = 0
    /\ cursors = 0
    /\ queryLog = <<>>
    /\ out = <<>>
    /\ faults = <<>>
    /\ recent_questions = <<>>
    /\ cursor = 0
    /\ total_questions = 0
    /\ raised = "none"

\* A main() without the guard of line 177.
AfterConnectUnguarded(c) == "schema"

\* if not conn: return
AfterConnect(c) == IF c = "none" THEN "done" ELSE "schema"

\* A main() that runs the fallback whatever the recency step returned.
AfterRecentAlways(rq) == "fallback"

\* if not recent_questions: check_all_questions(conn, 10)
AfterRecent(rq) == IF rq = <<>> THEN "fallback" ELSE "count"

\* A main() whose exceptions leave without the finally clause.
OnRaiseSkipsFinally == "done"

\* Where an exception raised inside the try block of main() leads.
OnRaise == "finally"

\* Lines 172-178 with connect_to_database(): acquired says whether
\* psycopg2.connect returns a connection.
Connect ==
    /\ pc = "start"
    /\ \E acquired \in BOOLEAN :
         LET banner == <<Line("main", "none", "title", 0),
                         Line("main", "none", "rule", 50)>>
             port   == GetenvPort(DB_PORT)
             trying == Append(banner, Line("connect", "none", "Connecting", IntOf(port)))
         IN  IF ~IsInt(port)
             THEN /\ faults' = Append(faults, Fault("connect", Len(banner)))
                  /\ out' = Append(banner, Line("connect", "fail", "Error", "connect"))
                  /\ conn' = "none"
                  /\ connects' = connects
             ELSE IF ~acquired
             THEN /\ faults' = Append(faults, Fault("connect", Len(trying)))
                  /\ out' = Append(trying, Line("connect", "fail", "Error", "connect"))
                  /\ conn' = "none"
                  /\ connects' = connects
             ELSE /\ faults' = faults
                  /\ out' = Append(trying, Line("connect", "ok", "connected", 0))
                  /\ conn' = "open"
                  /\ connects' = connects + 1
    /\ pc' = AfterConnect(conn')
    /\ UNCHANGED <<DB_PORT, present, table, hours_back, closes, cursors,
                   queryLog, recent_questions, cursor, total_questions, raised>>

\* Lines 181-183
MainSchema ==
    /\ pc = "schema"
    /\ \E o \in Outcomes :
         check_table_structure(Append(out, Line("main", "none", "step", 1)), o)
    /\ pc' = "recent"
    /\ UNCHANGED <<DB_PORT, present, table, hours_back, conn, connects, closes,
                   recent_questions, cursor, total_questions, raised>>

\* Lines 185-187
MainRecent ==
    /\ pc = "recent"
    /\ \E o \in Outcomes : \E questions \in RecentAnswers(MainWindow) :
         /\ check_recent_questions(Append(out, Line("main", "none", "step", 2)),
                                   MainWindow, o, questions)
         /\ recent_questions' = Returned(o, questions)
    /\ pc' = AfterRecent(recent_questions')
    /\ UNCHANGED <<DB_PORT, present, table, hours_back, conn, connects, closes,
                   cursor, total_questions, raised>>

\* Lines 189-192
MainFallback ==
    /\ pc = "fallback"
    /\ \E o \in Outcomes : \E questions \in AllAnswers(MainLimit) :
         check_all_questions(Append(out, Line("main", "none", "step", 3)),
                             MainLimit, o, questions)
    /\ pc' = "count"
    /\ UNCHANGED <<DB_PORT, present, table, hours_back, conn, connects, closes,
                   recent_questions, cursor, total_questions, raised>>

\* Lines 194-197: nothing catches an exception here.
MainCountQuestions ==
    /\ pc = "count"
    /\ \E o \in Outcomes :
         /\ cursors' = IF o = "cursor_error" THEN cursors ELSE cursors + 1
         /\ cursor' = IF o = "cursor_error" THEN cursor ELSE cursors + 1
         /\ queryLog' = IF o = "cursor_error" THEN queryLog
                        ELSE Append(queryLog, Query("count_questions", cursors + 1))
         /\ IF Fails(o)
            THEN /\ faults' = Append(faults, Fault("count_questions", Len(out)))
                 /\ raised' = "count_questions"
                 /\ total_questions' = total_questions
                 /\ pc' = OnRaise
            ELSE /\ faults' = faults
                 /\ raised' = raised
                 /\ total_questions' = CountWhere("question")
                 /\ pc' = "count_answers"
    /\ UNCHANGED <<DB_PORT, present, table, hours_back, conn, connects, closes,
                   out, recent_questions>>

\* Lines 199-204: the second count, on the same cursor, and the summary.
MainCountAnswers ==
    /\ pc = "count_answers"
    /\ queryLog' = Append(queryLog, Query("count_answers", cursor))
    /\ \E o \in {"ok", "execute_error"} :
         IF Fails(o)
         THEN /\ faults' = Append(faults, Fault("count_answers", Len(out)))
              /\ raised' = "count_answers"
              /\ out' = out
              /\ pc' = OnRaise
         ELSE /\ faults' = faults
              /\ raised' = raised
              /\ out' = out \o <<Line("main", "none", "summary", 0),
                                 Line("main", "none", "Total Questions", total_questions),
                                 Line("main", "none", "Total Answers", CountWhere("answer"))>>
              /\ pc' = "finally"
    /\ UNCHANGED <<DB_PORT, present, table, hours_back, conn, connects, closes,
                   cursors, recent_questions, cursor, total_questions>>

\* A finally clause that reports the close without doing it.
MainFinallyNoClose ==
    /\ pc = "finally"
    /\ out' = Append(out, Line("main", "none", "closed", 0))
    /\ pc' = "done"
    /\ UNCHANGED <<DB_PORT, present, table, hours_back, conn, connects, closes,
                   cursors, queryLog, faults, recent_questions, cursor,
                   total_questions, raised>>

\* Lines 206-208
MainFinally ==
    /\ pc = "finally"
    /\ conn' = "closed"
    /\ closes' = closes + 1
    /\ out' = Append(out, Line("main", "none", "closed", 0))
    /\ pc' = "done"
    /\ UNCHANGED <<DB_PORT, present, table, hours_back, connects, cursors,
                   queryLog, faults, recent_questions, cursor, total_questions,
                   raised>>

Next ==
    \/ Connect
    \/ MainSchema
    \/ MainRecent
    \/ MainFallback
    \/ MainCountQuestions
    \/ MainCountAnswers
    \/ MainFinally

Spec == Init /\ [][Next]_vars

---------------------------------------------------------------------------
(* check_recent_questions alone, called with any window on an open        *)
(* connection                                                              *)

Windows == {1, 5, 24, 25, 48}

InitRecent ==
    /\ DB_PORT = Unset
    /\ present \in BOOLEAN
    /\ table \in (IF present THEN Tables ELSE {{}})
    /\ hours_back \in Windows
    /\ pc = "call"
    /\ conn = "open"
    /\ connects = 1
    /\ closes = 0
    /\ cursors = 0
    /\ queryLog = <<>>
    /\ out = <<>>
    /\ faults = <<>>
    /\ recent_questions = <<>>
    /\ cursor = 0
    /\ total_questions = 0
    /\ raised = "none"

CallRecent ==
    /\ pc = "call"
    /\ \E o \in Outcomes : \E questions \in RecentAnswers(hours_back) :
         /\ check_recent_questions(out, hours_back, o, questions)
         /\ recent_questions' = Returned(o, questions)
    /\ pc' = "returned"
    /\ UNCHANGED <<DB_PORT, present, table, hours_back, conn, connects, closes,
                   cursor, total_questions, raised>>

NextRecent == CallRecent

SpecRecent == InitRecent /\ [][NextRecent]_vars

---------------------------------------------------------------------------
(* What the claims speak of *)

\* The positions of out printed by fn with a kind in kinds.
Printed(fn, kinds) ==
    {p \in DOMAIN out : out[p].fn = fn /\ out[p].kind \in kinds}

\* How many times a question helper was called: each call prints exactly
\* one of these three lines.
Calls(fn) == Cardinality(Printed(fn, {"Error", "No questions found", "Found"}))

\* The exceptions raised so far by the step named what.
Raised(what) == {i \in DOMAIN faults : faults[i].what = what}

\* The queries named q handed to the server so far.
Issued(q) == {i \in DOMAIN queryLog : queryLog[i].q = q}

Acquired == connects = 1

---------------------------------------------------------------------------
(* C1 *)

\* C1: in a run that acquired a connection the connection is closed exactly
\* once before main() ends, whichever later step failed: never zero times,
\* never twice, and not before the last step.
C1_ClosedExactlyOnce ==
    /\ closes <= 1
    /\ closes <= connects
    /\ (pc = "done" /\ Acquired) => (closes = 1 /\ conn = "closed")
    /\ (pc # "done") => closes = 0

\* A finished run whose schema step and second count both failed.
C1_Witness ==
    /\ pc = "done" /\ Acquired /\ closes = 1
    /\ Raised("schema") # {}
    /\ raised = "count_answers"

---------------------------------------------------------------------------
(* C2 *)

\* C2: when acquisition fails (a DB_PORT that is no number included),
\* connect_to_database returns "no connection" without raising, and main()
\* issues no query, makes no cursor, closes nothing and returns normally.
C2_NoQueryWithoutConnection ==
    (pc # "start" /\ ~Acquired) =>
        /\ pc = "done"
        /\ conn = "none"
        /\ queryLog = <<>>
        /\ cursors = 0
        /\ closes = 0
        /\ raised = "none"
        /\ Raised("connect") # {}
        /\ Printed("schema", {"Error", "table not found", "structure"}) = {}
        /\ Calls("recent") = 0 /\ Calls("all") = 0

\* A finished run whose DB_PORT was not a number.
C2_Witness ==
    /\ pc = "done" /\ ~Acquired
    /\ DB_PORT = <<"a", "b", "c">>
    /\ Raised("connect") # {}

---------------------------------------------------------------------------
(* C3 *)

\* Whether the recency query of this run returned at least one row.
RecencyGaveRows == Printed("recent", {"Found"}) # {}

---------------------------------------------------------------------------
(* C4, under SpecRecent *)

\* The ids of the question rows of the table at most W hours old.
RecentIds(W) ==
    {r.id : r \in {x \in table : x.message_type = "question" /\ Now - x.timestamp <= W}}

\* The sequence s holds exactly the rows of RecentIds(W), each once, newest
\* first.
ExactlyRecent(s, W) ==
    /\ {s[i].id : i \in DOMAIN s} = RecentIds(W)
    /\ Len(s) = Cardinality(RecentIds(W))
    /\ \A i \in DOMAIN s : \E r \in table :
         /\ r.id = s[i].id
         /\ r.timestamp = s[i].timestamp
         /\ r.content = s[i].question_text
    /\ \A i, j \in DOMAIN s : i < j => s[i].timestamp >= s[j].timestamp

---------------------------------------------------------------------------
(* C5 *)

\* Whether the step named what was attempted: each attempt ends in one
\* line of the helper, or (the counts) in a query or an exception.
Attempted(what) ==
    CASE what = "schema" ->
            Printed("schema", {"Error", "table not found", "structure"}) # {}
      [] what \in {"recent", "all"} -> Calls(what) = 1
      [] OTHER -> Issued(what) # {} \/ Raised(what) # {}

\* A failure of a guarded step is reported by the step and goes no further.
CaughtInStep(what) ==
    \A i \in Raised(what) :
        /\ faults[i].at + 1 \in DOMAIN out
        /\ out[faults[i].at + 1] = Line(what, "fail", "Error", what)
        /\ raised # what

\* C5 as stated: a failure of the schema, recency or fallback query is
\* caught in its step and reported, the later steps all run, a failed
\* recency query is followed by the fallback, and both count queries are
\* attempted.
C5_Original ==
    /\ CaughtInStep("schema") /\ CaughtInStep("recent") /\ CaughtInStep("all")
    /\ (pc = "done" /\ Raised("schema") \cup Raised("recent") \cup Raised("all") # {}) =>
          /\ Attempted("schema") /\ Attempted("recent")
          /\ Raised("recent") # {} => Attempted("all")
          /\ Attempted("count_questions")
          /\ Attempted("count_answers")

\* C5 as amended: a failure of the schema, recency or fallback query is
\* caught in its step, reported and treated as no results; the later steps
\* run in order, a failed recency query is followed by the fallback, the
\* question count is always attempted, and the answer count is attempted
\* unless the question count itself raised.
C5_GuardedStepsContinue ==
    /\ CaughtInStep("schema") /\ CaughtInStep("recent") /\ CaughtInStep("all")
    /\ Raised("recent") # {} => recent_questions = <<>>
    /\ (Raised("schema") # {} /\ pc # "recent") => Attempted("recent")
    /\ (Raised("recent") # {} /\ pc # "fallback") => Attempted("all")
    /\ (Raised("all") # {} /\ pc # "count") => Attempted("count_questions")
    /\ (pc = "done" /\ Acquired) =>
          /\ Attempted("schema") /\ Attempted("recent")
          /\ Attempted("count_questions")
          /\ Raised("count_questions") = {} => Attempted("count_answers")

\* A finished run in which the schema, recency and fallback queries all
\* failed and both counts were still made.
C5_Witness ==
    /\ pc = "done" /\ Acquired
    /\ Raised("schema") # {} /\ Raised("recent") # {} /\ Raised("all") # {}
    /\ Issued("count_questions") # {} /\ Issued("count_answers") # {}
    /\ raised = "none"

---------------------------------------------------------------------------
(* C6 *)

\* C6: a failure of either count query is not caught: it leaves main(), no
\* summary is printed, no line reports it, and the connection is closed
\* before the run ends.
C6_CountFailurePropagates ==
    \A what \in {"count_questions", "count_answers"} :
        Raised(what) # {} =>
            /\ raised = what
            /\ pc \in {"finally", "done"}
            /\ Printed("main", {"summary", "Total Questions", "Total Answers"}) = {}
            /\ \A p \in DOMAIN out : out[p].kind = "Error" => out[p].val # what
            /\ pc = "done" => (closes = 1 /\ conn = "closed")

\* A finished run whose first count failed after the cursor was made.
C6_Witness ==
    /\ pc = "done"
    /\ raised = "count_questions"
    /\ Issued("count_questions") # {}
    /\ closes = 1

---------------------------------------------------------------------------
(* C7 and C8: the rows displayed *)

\* The positions of the "ID" lines: one per row displayed.
Shown == {p \in DOMAIN out : out[p].kind = "ID"}

\* The row of the table displayed at p.
RowAt(p) == CHOOSE r \in table : r.id = out[p].val

\* The metadata lines of the row displayed at p: the lines after its head,
\* up to the next row or the end of the helper's output.
HeadLen(p) == IF out[p].fn = "recent" THEN 4 ELSE 3

RECURSIVE MetaRun(_)
MetaRun(q) ==
    IF q \in DOMAIN out
       /\ out[q].kind \in {"Source", "Category", "Difficulty", "Metadata"}
    THEN <<out[q]>> \o MetaRun(q + 1)
    ELSE <<>>

MetaShown(p) == MetaRun(p + HeadLen(p) + 1)

\* Whether a metadata value is a key-value map: a decoded JSON object, or a
\* text that is a JSON object.
IsMapValue(md) ==
    \/ md.ty = "json" /\ md.obj.kind = "map"
    \/ md.ty = "str" /\ JsonLoads(md.text).ok /\ JsonLoads(md.text).val.kind = "map"

MapOf(md) == IF md.ty = "json" THEN md.obj.map ELSE JsonLoads(md.text).val.map

Field(fn, kind, m, key) ==
    Line(fn, "none", kind, IF key \in DOMAIN m THEN m[key] ELSE "unknown")

\* C7 as stated: for every row displayed, metadata that is a key-value map
\* shows Source, Category and Difficulty, each with its value or "unknown";
\* metadata that is present, not empty and no map shows its raw value and
\* no parsed field; and every row fetched is displayed.
C7_Original ==
    /\ \A p \in Shown :
         LET md == RowAt(p).metadata
             fn == out[p].fn
         IN  /\ IsMapValue(md) =>
                   MetaShown(p) = <<Field(fn, "Source", MapOf(md), "source"),
                                    Field(fn, "Category", MapOf(md), "category"),
                                    Field(fn, "Difficulty", MapOf(md), "difficulty")>>
             /\ (~IsMapValue(md) /\ md.ty = "json") =>
                   MetaShown(p) = <<Line(fn, "none", "Metadata", md)>>
             /\ (~IsMapValue(md) /\ md.ty = "str" /\ md.text # <<>>) =>
                   MetaShown(p) = <<Line(fn, "none", "Metadata", md)>>
    /\ pc \notin {"start", "schema", "recent"} =>
          Cardinality({p \in Shown : out[p].fn = "recent"}) = Len(recent_questions)

\* C8: the recency view shows a body of more than 100 characters as its
\* first 100 characters followed by "...", and a shorter body as it is; the
\* fallback view shows every body whole.
C8_Truncation ==
    \A p \in Shown :
        LET body  == RowAt(p).content
            shown == out[p + 2]
        IN  /\ shown.kind = "Text"
            /\ shown.fn = out[p].fn
            /\ IF shown.fn = "recent" /\ Len(body) > 100
               THEN shown.val = [i \in 1..103 |-> IF i <= 100 THEN body[i] ELSE 46]
               ELSE shown.val = body

\* A run whose recency view showed a body of 100 characters whole and one of
\* 101 characters cut.
C8_Witness ==
    /\ \E p \in Shown : out[p].fn = "recent" /\ Len(RowAt(p).content) = 100
    /\ \E p \in Shown : out[p].fn = "recent" /\ Len(RowAt(p).content) = 101
                        /\ Len(out[p + 2].val) = 103

---------------------------------------------------------------------------
(* C9 *)

\* The exception faults[i] is reported by a line with the failure marker.
Reported(i) ==
    \E p \in DOMAIN out :
        /\ p > faults[i].at
        /\ out[p].mark = "fail"
        /\ out[p].kind = "Error"
        /\ out[p].val = faults[i].what

\* C9 as stated: every failure that occurs (connection, schema, recency,
\* fallback, metadata, count) is reported by a line with the failure
\* marker.
C9_Original == \A i \in DOMAIN faults : Reported(i)

\* C9 as amended: a connection failure and a failure of the schema, recency
\* or fallback query are each reported at once by a line with the failure
\* marker; a metadata failure shows the raw metadata on a line without the
\* marker; a count failure is reported by no line of the program.
C9_GuardedFailuresReported ==
    \A i \in DOMAIN faults :
        LET what == faults[i].what
            next == faults[i].at + 1
        IN  CASE what \in {"connect", "schema", "recent", "all"} ->
                    /\ Reported(i)
                    /\ next \in DOMAIN out
                    /\ out[next].mark = "fail" /\ out[next].kind = "Error"
              [] what = "metadata" ->
                    /\ ~Reported(i)
                    /\ next \in DOMAIN out
                    /\ out[next].kind = "Metadata" /\ out[next].mark = "none"
              [] OTHER ->
                    /\ ~Reported(i)
                    /\ \A p \in DOMAIN out : p > faults[i].at => out[p].mark = "none"

\* A finished run with a reported schema failure, a metadata failure and a
\* count failure.
C9_Witness ==
    /\ pc = "done"
    /\ Raised("schema") # {} /\ Raised("metadata") # {}
    /\ Raised("count_answers") # {}

---------------------------------------------------------------------------
(* C10 *)

StepOf(q) ==
    CASE q = "schema" -> 1 [] q = "recent" -> 2 [] q = "all" -> 3
      [] q = "count_questions" -> 4 [] q = "count_answers" -> 5

\* The queries were sent one after another in the order of the steps, none
\* twice.
InOrderOnce ==
    \A i, j \in DOMAIN queryLog :
        i < j => StepOf(queryLog[i].q) < StepOf(queryLog[j].q)

\* C10 as stated: one connection and one cursor serve all the queries of
\* the run, which are sent in order, none twice.
C10_Original ==
    /\ connects <= 1
    /\ InOrderOnce
    /\ (pc = "done" /\ Acquired) => cursors = 1

\* C10 as amended: one connection serves the run; each of the schema,
\* recency and fallback steps makes a cursor of its own and main() makes one
\* more that both counts share, at most four in all; the queries are sent
\* in order, none twice.
C10_OneConnectionCursorPerStep ==
    /\ connects <= 1
    /\ queryLog # <<>> => Acquired
    /\ InOrderOnce
    /\ cursors <= 4
    /\ \A i \in DOMAIN queryLog : queryLog[i].cur \in 1..cursors
    /\ \A i, j \in DOMAIN queryLog :
          i < j => IF queryLog[i].q = "count_questions"
                   THEN queryLog[j].cur = queryLog[i].cur
                   ELSE queryLog[j].cur > queryLog[i].cur

\* A finished run that sent all five queries on four cursors.
C10_Witness ==
    /\ pc = "done" /\ Acquired
    /\ Len(queryLog) = 5
    /\ cursors = 4

===========================================================================
